---- MODULE Spec2Model ----
(***************************************************************************)
(* Job / bid lifecycle of the HomeFixConnect backend.                      *)
(*                                                                         *)
(* Every HTTP request is handled by an async controller; each `await` of   *)
(* a Supabase call is one atomic step against the store, and handlers of   *)
(* different requests interleave at those steps.  A Supabase call returns  *)
(* {data, error}; a failed call is the input ok = FALSE of its step.  A    *)
(* failed single-row read is handled exactly as a missing row             *)
(* (if (fetchError || !row)), so it is the read of an id with no row.      *)
(* Of a job row the model keeps every column but the timestamps; of a bid  *)
(* row job_id, contractor_id, amount, estimated_days and status (proposal  *)
(* is not part of the state).  Spec is the job / bid                       *)
(* lifecycle, in which every job is posted with the same detail fields     *)
(* and no update touches them; SpecDetails is the posting and editing of   *)
(* a job's detail fields, SpecAuth the lifecycle with a second customer,   *)
(* SpecViews the listing of a job's bids, SpecRatings the rating of a      *)
(* completed job, SpecChat the opening of conversations and SpecTwoJobs    *)
(* the acceptance of bids when a customer has two jobs.                    *)
(***************************************************************************)
EXTENDS Integers, FiniteSets, Sequences, TLC

\* ---------------------------------------------------------------- bounds
MaxJobs == 1       \* jobs ever inserted, but in SpecTwoJobs
MaxJobIds == 2     \* jobs ever inserted in SpecTwoJobs
MaxBids == 2       \* bids ever inserted
MaxCalls == 5      \* job and bid requests ever issued
MaxRatings == 2    \* ratings ever inserted

\* ------------------------------------------------------------- universe
Reqs == {"r1", "r2"}            \* requests that can be in flight together
Customers == {"c1", "c2"}
Contractors == {"k1", "k2"}
Users == Customers \cup Contractors
\* the users that issue the requests of the lifecycle
Callers == {"c1", "k1", "k2"}
Null == "null"
JobIds == 1..MaxJobIds
BidIds == 1..MaxBids
\* amounts a client sends in POST /bids and in PUT /bids/:id
\* (0: no amount in the body)
NewAmounts == {0, 10}
PatchAmounts == {0, 20}

\* users.role
RegisteredRole(u) == IF u \in Customers THEN "customer" ELSE "contractor"

\* CHECK constraints of the schema
JobStatuses == {"open", "in_progress", "completed", "cancelled"}
BidStatuses == {"pending", "accepted", "rejected"}

\* status values a client may send in the body of PUT /jobs/:id
\* ("none": no status in the body)
PatchStatuses == JobStatuses \cup {"none", "bogus"}

\* ------------------------------------------------- a job's detail fields
\* a field that the request body does not carry
Undefined == "undefined"
Fields == {"title", "description", "category", "location", "budget", "images"}
NoFields == [f \in Fields |-> Undefined]

\* a body value is a string (multipart form); if (v): neither absent nor ''
Truthy(v) == v \notin {Undefined, ""}

\* parseFloat of the budget strings a client sends
parseFloat(s) ==
  CASE s = "0" -> 0
    [] s = "-5" -> -5
    [] s = "50" -> 50
    [] s = "70" -> 70

\* .trim() of the validation chain: the sanitized value replaces the one in
\* req.body (" T1 " is a title sent with spaces around it)
trim(s) == IF s = " T1 " THEN "T1" ELSE s

\* the body of the POST /jobs that every job of the lifecycle is posted with
PostedFields ==
  [title |-> "T1", description |-> "D1", category |-> "C1",
   location |-> "L1", budget |-> "50", images |-> Undefined]

VARIABLES
  jobs,      \* table jobs: id -> row
  bids,      \* table bids: id -> row
  nextJob,   \* next fresh job id (ids are never reused)
  nextBid,   \* next fresh bid id
  ratings,   \* table ratings: the rows in the order of their insertion
  conversations, \* table conversations: the (user1_id, user2_id) of its rows
  roles,     \* table users: id -> role
  reqs,      \* the in-flight requests: locals of each handler and its position
  calls      \* number of job and bid requests issued so far

vars ==
  <<jobs, bids, ratings, conversations, roles, nextJob, nextBid, reqs, calls>>

\* req.user.role as verifyUserExists reads it from users for each request
Role(u) == roles[u]

NoJob == [exists |-> FALSE, customer_id |-> Null, contractor_id |-> Null,
          status |-> "none",
          title |-> "", description |-> "", category |-> "",
          location |-> Null, budget |-> 0, images |-> Null]
\* estimated_days of a bid: NULL, or <<n>>
NoDays == <<>>
NoBid == [exists |-> FALSE, job_id |-> 0, contractor_id |-> Null,
          amount |-> 0, estimated_days |-> NoDays, status |-> "none"]

\* the detail fields of a row
Details(row) == [f \in Fields |-> row[f]]

\* A handler's locals.  pend, wrote and s3failed are history of the call.
IdleReq == [op |-> "none", pc |-> "idle", caller |-> Null, job |-> 0, bid |-> 0,
            st |-> "none", patch |-> NoFields, amt |-> 0, snap |-> Null,
            toUserId |-> Null, rating |-> 0, otherUserId |-> Null,
            days |-> Undefined, currentUserId |-> Null,
            page |-> <<>>, limit |-> <<>>, range |-> <<>>,
            pend |-> {}, wrote |-> FALSE, s3failed |-> FALSE,
            isJobOwner |-> FALSE, view |-> {}, seen |-> Details(NoJob),
            result |-> "none"]

Begin(op, caller, j, b) ==
  [IdleReq EXCEPT !.op = op, !.caller = caller, !.job = j, !.bid = b]

\* res.status(...).json(...): the handler ends; its locals are gone (the
\* history of an assignContractor call, of a call that lists bids with
\* the list it returned, of a call that lists a page with the range it asked
\* the store for, and of a createJob call that created a job with the body
\* it was sent, is kept)
Respond(r, res) ==
  IF r.op \in {"acceptBid", "getBidsForJob", "getJobById",
              "getJobs", "getMyBids", "getMessages"}
  THEN [r EXCEPT !.pc = "done", !.result = res]
  ELSE [IdleReq EXCEPT !.pc = "done", !.op = r.op, !.result = res]

IsSuccess(res) == res \in {"200", "201"}

Free(p) == reqs[p].pc \in {"idle", "done"}

\* a new request is served in the first free slot (the slots are
\* interchangeable)
FirstFree(p) ==
  /\ Free(p)
  /\ p = "r1" \/ ~Free("r1")

CanStart(p) == FirstFree(p) /\ calls < MaxCalls

\* .eq('id', id).single(): the row, if any.  A client names ids of rows that
\* were created, or an id (0) that no row has.
JobRow(j) == IF j \in JobIds THEN jobs[j] ELSE NoJob
BidRow(b) == IF b \in BidIds THEN bids[b] ELSE NoBid
ReqJobIds == 0..MaxJobIds
ReqBidIds == 0..MaxBids
KnownJob(j) == j < nextJob
KnownBid(b) == b < nextBid

Init ==
  /\ jobs = [j \in JobIds |-> NoJob]
  /\ bids = [b \in BidIds |-> NoBid]
  /\ nextJob = 1
  /\ nextBid = 1
  /\ ratings = <<>>
  /\ conversations = {}
  /\ roles = [u \in Users |-> RegisteredRole(u)]
  /\ reqs = [p \in Reqs |-> IdleReq]
  /\ calls = 0

\* ------------------------------------------------------------ createJob
\* the budget strings that isFloat accepts
NumericStrings == {"0", "-5", "50", "70"}

\* title, description and category not empty once trimmed, budget
\* isFloat({min: 0})
createJobValidation(body) ==
  /\ Truthy(trim(body.title)) /\ Truthy(trim(body.description))
  /\ Truthy(trim(body.category))
  /\ body.budget \in NumericStrings /\ parseFloat(body.budget) >= 0

\* req.body as createJobValidation leaves it
Sanitized(body) ==
  [body EXCEPT !.title = trim(@), !.description = trim(@),
               !.category = trim(@)]

\* the row of an insert that drops the location
NewJobRow_NoLocation(customerId, body) ==
  [exists |-> TRUE, customer_id |-> customerId,
   contractor_id |-> Null, status |-> "open",
   title |-> body.title,
   description |-> body.description,
   category |-> body.category,
   location |-> Null,
   budget |-> parseFloat(body.budget),
   images |-> IF Truthy(body.images) THEN body.images ELSE Null]

\* the row that createJob inserts
NewJobRow(customerId, body) ==
  [exists |-> TRUE, customer_id |-> customerId,
   contractor_id |-> Null, status |-> "open",
   title |-> body.title,
   description |-> body.description,
   category |-> body.category,
   location |-> IF Truthy(body.location) THEN body.location ELSE Null,
   budget |-> parseFloat(body.budget),
   images |-> IF Truthy(body.images) THEN body.images ELSE Null]

\* a route without the role test, and a handler without its own
requireCustomer_Anyone(caller) == caller \in Users

\* the route's requireCustomer; createJob repeats the test on req.user.role
requireCustomer(caller) == Role(caller) = "customer"

CreateJob(p, caller, body, ok) ==
  /\ CanStart(p)
  /\ calls' = calls + 1
  /\ LET r == Begin("createJob", caller, 0, 0) IN
     IF ~requireCustomer(caller) THEN
       /\ reqs' = [reqs EXCEPT ![p] = Respond(r, "403 customers only")]
       /\ UNCHANGED <<roles, conversations, ratings, jobs, bids, nextJob, nextBid>>
     ELSE IF ~createJobValidation(body) THEN
       /\ reqs' = [reqs EXCEPT ![p] = Respond(r, "400 validation failed")]
       /\ UNCHANGED <<roles, conversations, ratings, jobs, bids, nextJob, nextBid>>
     ELSE IF ~( Truthy(Sanitized(body).title)
                /\ Truthy(Sanitized(body).description)
                /\ Truthy(Sanitized(body).category)
                /\ Truthy(body.budget) ) THEN
       /\ reqs' = [reqs EXCEPT ![p] = Respond(r, "400 missing fields")]
       /\ UNCHANGED <<roles, conversations, ratings, jobs, bids, nextJob, nextBid>>
     ELSE IF ~ok THEN
       /\ reqs' = [reqs EXCEPT ![p] = Respond(r, "400 create job failed")]
       /\ UNCHANGED <<roles, conversations, ratings, jobs, bids, nextJob, nextBid>>
     ELSE
       /\ nextJob <= MaxJobIds
       /\ jobs' = [jobs EXCEPT ![nextJob] = NewJobRow(caller, Sanitized(body))]
       /\ nextJob' = nextJob + 1
       /\ reqs' = [reqs EXCEPT ![p] =
                     [r EXCEPT !.pc = "done", !.result = "201",
                               !.job = nextJob, !.patch = body]]
       /\ UNCHANGED <<roles, conversations, ratings, bids, nextBid>>

\* ------------------------------------------------------------ updateJob
validTransitions(from) ==
  CASE from = "open" -> {"cancelled", "in_progress"}
    [] from = "in_progress" -> {"completed", "cancelled"}
    [] from = "completed" -> {}
    [] from = "cancelled" -> {}
    [] OTHER -> {}

\* the checks of updateJob with a guard that refuses every request on a job
\* that is not open
UpdateJobCheck_OpenOnly(existingJob, caller, status, patch) ==
  IF ~existingJob.exists THEN "404 job not found"
  ELSE IF existingJob.customer_id # caller THEN "403 not job owner"
  ELSE IF status # "none" /\ status # existingJob.status
          /\ status \notin validTransitions(existingJob.status)
       THEN "400 invalid transition"
  ELSE IF status # "none" /\ status # existingJob.status
          /\ status = "in_progress" /\ existingJob.contractor_id = Null
       THEN "400 no contractor assigned"
  ELSE IF existingJob.status # "open"
       THEN "400 details only when open"
  ELSE "go"

\* the checks of updateJob on the row it fetched; "go" = proceed to the update
UpdateJobCheck(existingJob, caller, status, patch) ==
  IF ~existingJob.exists THEN "404 job not found"
  ELSE IF existingJob.customer_id # caller THEN "403 not job owner"
  ELSE IF status # "none" /\ status # existingJob.status
          /\ status \notin validTransitions(existingJob.status)
       THEN "400 invalid transition"
  ELSE IF status # "none" /\ status # existingJob.status
          /\ status = "in_progress" /\ existingJob.contractor_id = Null
       THEN "400 no contractor assigned"
  ELSE IF existingJob.status # "open"
          /\ ( Truthy(patch.title) \/ Truthy(patch.description)
               \/ Truthy(patch.category) \/ Truthy(patch.budget)
               \/ Truthy(patch.location) )
       THEN "400 details only when open"
  ELSE "go"

UpdateJobRead(p, caller, j, status, patch) ==
  /\ CanStart(p)
  /\ KnownJob(j)
  /\ calls' = calls + 1
  /\ LET r == Begin("updateJob", caller, j, 0)
         existingJob == JobRow(j)
         chk == UpdateJobCheck(existingJob, caller, status, patch) IN
     reqs' = [reqs EXCEPT ![p] =
       IF Role(caller) # "customer" THEN Respond(r, "403 customers only")
       ELSE IF chk # "go" THEN Respond(r, chk)
       ELSE [r EXCEPT !.pc = "uj_write", !.st = status, !.patch = patch]]
  /\ UNCHANGED <<roles, conversations, ratings, jobs, bids, nextJob, nextBid>>

\* an update that also writes a customer_id sent in the body
updateData_WithCustomer(row, status, patch) ==
  [row EXCEPT
     !.customer_id = "c2",
     !.title = IF Truthy(patch.title) THEN patch.title ELSE @,
     !.description = IF Truthy(patch.description) THEN patch.description ELSE @,
     !.category = IF Truthy(patch.category) THEN patch.category ELSE @,
     !.location = IF patch.location # Undefined THEN patch.location ELSE @,
     !.budget = IF Truthy(patch.budget) THEN parseFloat(patch.budget) ELSE @,
     !.status = IF status # "none" THEN status ELSE @,
     !.images = IF Truthy(patch.images) THEN patch.images ELSE @]

\* updateData applied to a row: a field is written if (field), location
\* if (location !== undefined)
updateData(row, status, patch) ==
  [row EXCEPT
     !.title = IF Truthy(patch.title) THEN patch.title ELSE @,
     !.description = IF Truthy(patch.description) THEN patch.description ELSE @,
     !.category = IF Truthy(patch.category) THEN patch.category ELSE @,
     !.location = IF patch.location # Undefined THEN patch.location ELSE @,
     !.budget = IF Truthy(patch.budget) THEN parseFloat(patch.budget) ELSE @,
     !.status = IF status # "none" THEN status ELSE @,
     !.images = IF Truthy(patch.images) THEN patch.images ELSE @]

UpdateJobWrite(p, ok) ==
  /\ reqs[p].pc = "uj_write"
  /\ LET r == reqs[p]
         j == r.job
         newStatus == IF r.st = "none" THEN jobs[j].status ELSE r.st IN
     IF ok /\ jobs[j].exists /\ newStatus \in JobStatuses THEN
       /\ jobs' = [jobs EXCEPT ![j] = updateData(@, r.st, r.patch)]
       /\ reqs' = [reqs EXCEPT ![p] = Respond(r, "200")]
     ELSE
       /\ jobs' = jobs
       /\ reqs' = [reqs EXCEPT ![p] = Respond(r, "400 update job failed")]
  /\ UNCHANGED <<roles, conversations, ratings, bids, nextJob, nextBid, calls>>

\* ------------------------------------------------------------ deleteJob
BidsOfJob(j) == {b \in BidIds : bids[b].exists /\ bids[b].job_id = j}

DeleteJobRead(p, caller, j) ==
  /\ CanStart(p)
  /\ KnownJob(j)
  /\ calls' = calls + 1
  /\ LET r == Begin("deleteJob", caller, j, 0)
         existingJob == JobRow(j) IN
     reqs' = [reqs EXCEPT ![p] =
       IF Role(caller) # "customer" THEN Respond(r, "403 customers only")
       ELSE IF ~existingJob.exists THEN Respond(r, "404 job not found")
       ELSE IF existingJob.customer_id # caller THEN Respond(r, "403 not job owner")
       ELSE IF existingJob.status # "open" THEN Respond(r, "400 job not open")
       ELSE [r EXCEPT !.pc = "dj_count"]]
  /\ UNCHANGED <<roles, conversations, ratings, jobs, bids, nextJob, nextBid>>

DeleteJobCount(p, ok) ==
  /\ reqs[p].pc = "dj_count"
  /\ LET r == reqs[p] IN
     reqs' = [reqs EXCEPT ![p] =
       IF ~ok THEN Respond(r, "500 bid count failed")
       ELSE IF Cardinality(BidsOfJob(r.job)) > 0 THEN Respond(r, "400 job has bids")
       ELSE [r EXCEPT !.pc = "dj_delete"]]
  /\ UNCHANGED <<roles, conversations, ratings, jobs, bids, nextJob, nextBid, calls>>

\* bids.job_id REFERENCES jobs(id): a referenced job row cannot be deleted
DeleteJobDelete(p, ok) ==
  /\ reqs[p].pc = "dj_delete"
  /\ LET r == reqs[p] IN
     IF ok /\ BidsOfJob(r.job) = {} THEN
       /\ jobs' = [jobs EXCEPT ![r.job] = NoJob]
       /\ reqs' = [reqs EXCEPT ![p] = Respond(r, "200")]
     ELSE
       /\ jobs' = jobs
       /\ reqs' = [reqs EXCEPT ![p] = Respond(r, "400 delete job failed")]
  /\ UNCHANGED <<roles, conversations, ratings, bids, nextJob, nextBid, calls>>

\* --------------------------------------------- assignContractor (acceptBid)
PendingBidsOfJob(j) == {b \in BidsOfJob(j) : bids[b].status = "pending"}

\* the checks as they would be without the test of the job's owner
AssignJobCheck_AnyCustomer(job, caller) ==
  IF ~job.exists THEN "404 job not found"
  ELSE IF job.status # "open" THEN "400 job not open"
  ELSE "go"

\* the checks as they would be without the test of the job's status
AssignJobCheck_AnyStatus(job, caller) ==
  IF ~job.exists THEN "404 job not found"
  ELSE IF job.customer_id # caller THEN "403 not job owner"
  ELSE "go"

\* the checks of assignContractor on the job row it fetched
AssignJobCheck(job, caller) ==
  IF ~job.exists THEN "404 job not found"
  ELSE IF job.customer_id # caller THEN "403 not job owner"
  ELSE IF job.status # "open" THEN "400 job not open"
  ELSE "go"

AcceptReadJob(p, caller, j, b) ==
  /\ CanStart(p)
  /\ KnownJob(j) /\ KnownBid(b)
  /\ calls' = calls + 1
  /\ LET r == Begin("acceptBid", caller, j, b)
         job == JobRow(j)
         chk == AssignJobCheck(job, caller) IN
     reqs' = [reqs EXCEPT ![p] =
       IF Role(caller) # "customer" THEN Respond(r, "403 customers only")
       ELSE IF chk # "go" THEN Respond(r, chk)
       ELSE [r EXCEPT !.pc = "ab_read_bid",
                      !.pend = PendingBidsOfJob(j) \ {b}]]
  /\ UNCHANGED <<roles, conversations, ratings, jobs, bids, nextJob, nextBid>>

\* .from('bids').select('*').eq('id', bidId).eq('job_id', jobId).single()
AcceptReadBid(p) ==
  /\ reqs[p].pc = "ab_read_bid"
  /\ LET r == reqs[p]
         bid == BidRow(r.bid) IN
     reqs' = [reqs EXCEPT ![p] =
       IF ~bid.exists \/ bid.job_id # r.job
       THEN Respond(r, "404 bid not found")
       ELSE [r EXCEPT !.pc = "ab_update_job", !.snap = bid.contractor_id]]
  /\ UNCHANGED <<roles, conversations, ratings, jobs, bids, nextJob, nextBid, calls>>

\* step 1: .update({contractor_id, status: 'in_progress'}).eq('id', jobId)
AcceptUpdateJob(p, ok) ==
  /\ reqs[p].pc = "ab_update_job"
  /\ LET r == reqs[p] IN
     IF ok /\ jobs[r.job].exists THEN
       /\ jobs' = [jobs EXCEPT ![r.job].contractor_id = r.snap,
                               ![r.job].status = "in_progress"]
       /\ reqs' = [reqs EXCEPT ![p] =
                     [r EXCEPT !.pc = "ab_update_bid", !.wrote = TRUE]]
     ELSE
       /\ jobs' = jobs
       /\ reqs' = [reqs EXCEPT ![p] = Respond(r, "400 assign failed")]
  /\ UNCHANGED <<roles, conversations, ratings, bids, nextJob, nextBid, calls>>

\* step 2 as it would be if a failed update were followed by step 3
AcceptUpdateBid_Continue(p, ok) ==
  /\ reqs[p].pc = "ab_update_bid"
  /\ LET r == reqs[p] IN
     /\ bids' = IF ok
                THEN [b \in BidIds |->
                        IF b = r.bid /\ bids[b].exists
                        THEN [bids[b] EXCEPT !.status = "accepted"]
                        ELSE bids[b]]
                ELSE bids
     /\ reqs' = [reqs EXCEPT ![p] = [r EXCEPT !.pc = "ab_reject_others"]]
  /\ UNCHANGED <<roles, conversations, ratings, jobs, nextJob, nextBid, calls>>

\* step 2: .update({status: 'accepted'}).eq('id', bidId)
\* (no .single(): an update that matches no row is not an error)
AcceptUpdateBid(p, ok) ==
  /\ reqs[p].pc = "ab_update_bid"
  /\ LET r == reqs[p] IN
     IF ok THEN
       /\ bids' = [b \in BidIds |->
                     IF b = r.bid /\ bids[b].exists
                     THEN [bids[b] EXCEPT !.status = "accepted"]
                     ELSE bids[b]]
       /\ reqs' = [reqs EXCEPT ![p] = [r EXCEPT !.pc = "ab_reject_others"]]
     ELSE
       /\ bids' = bids
       /\ reqs' = [reqs EXCEPT ![p] = [r EXCEPT !.pc = "ab_rollback"]]
  /\ UNCHANGED <<roles, conversations, ratings, jobs, nextJob, nextBid, calls>>

\* roll back step 1; the result of the rollback update is not looked at
AcceptRollback(p, ok) ==
  /\ reqs[p].pc = "ab_rollback"
  /\ LET r == reqs[p] IN
     /\ jobs' = IF ok /\ jobs[r.job].exists
                THEN [jobs EXCEPT ![r.job].contractor_id = Null,
                                  ![r.job].status = "open"]
                ELSE jobs
     /\ reqs' = [reqs EXCEPT ![p] = Respond(r, "400 bid update failed")]
  /\ UNCHANGED <<roles, conversations, ratings, bids, nextJob, nextBid, calls>>

\* step 3 as it would be if its failure were fatal: the job update is undone
\* and the call answers with an error
AcceptRejectOthers_Fatal(p, ok) ==
  /\ reqs[p].pc = "ab_reject_others"
  /\ LET r == reqs[p] IN
     /\ bids' = IF ok
                THEN [b \in BidIds |->
                        IF bids[b].exists /\ bids[b].job_id = r.job /\ b # r.bid
                        THEN [bids[b] EXCEPT !.status = "rejected"]
                        ELSE bids[b]]
                ELSE bids
     /\ jobs' = IF ok \/ ~jobs[r.job].exists
                THEN jobs
                ELSE [jobs EXCEPT ![r.job].contractor_id = Null,
                                  ![r.job].status = "open"]
     /\ reqs' = [reqs EXCEPT ![p] =
                   IF ok THEN Respond(r, "200")
                   ELSE Respond([r EXCEPT !.s3failed = TRUE],
                                "400 reject bids failed")]
  /\ UNCHANGED <<roles, conversations, ratings, nextJob, nextBid, calls>>

\* step 3: .update({status: 'rejected'}).eq('job_id', jobId).neq('id', bidId)
AcceptRejectOthers(p, ok) ==
  /\ reqs[p].pc = "ab_reject_others"
  /\ LET r == reqs[p] IN
     /\ bids' = IF ok
                THEN [b \in BidIds |->
                        IF b \in BidsOfJob(r.job) /\ b # r.bid
                        THEN [bids[b] EXCEPT !.status = "rejected"]
                        ELSE bids[b]]
                ELSE bids
     /\ reqs' = [reqs EXCEPT ![p] =
                   Respond([r EXCEPT !.s3failed = ~ok], "200")]
  /\ UNCHANGED <<roles, conversations, ratings, jobs, nextJob, nextBid, calls>>

\* ------------------------------------------------------------ createBid
\* createBid handlers that have not inserted yet
BidsInFlight ==
  Cardinality({p \in Reqs : reqs[p].pc \in {"cb_check", "cb_insert"}})

\* parseInt of the estimatedDays strings a client sends
parseInt(s) ==
  CASE s = "2" -> 2
    [] s = "0" -> 0
    [] s = "-3" -> -3

\* the estimatedDays strings that isInt accepts
IntStrings == {"2", "0", "-3"}

\* estimatedDays of createBidValidation: optional, isInt({min: 1})
createBidValidation(estimatedDays) ==
  \/ estimatedDays = Undefined
  \/ estimatedDays \in IntStrings /\ parseInt(estimatedDays) >= 1

\* estimatedDays ? parseInt(estimatedDays) : null
DaysOf(estimatedDays) ==
  IF Truthy(estimatedDays) THEN <<parseInt(estimatedDays)>> ELSE NoDays

\* the checks as they would be without the test of the job's customer
CreateBidJobCheck_OwnJob(job, contractorId) ==
  IF ~job.exists THEN "404 job not found"
  ELSE IF job.status # "open" THEN "400 job not open"
  ELSE "go"

\* the checks of createBid on the job row it fetched
CreateBidJobCheck(job, contractorId) ==
  IF ~job.exists THEN "404 job not found"
  ELSE IF job.status # "open" THEN "400 job not open"
  ELSE IF job.customer_id = contractorId THEN "400 own job"
  ELSE "go"

CreateBidReadJob(p, caller, j, amount, estimatedDays) ==
  /\ CanStart(p)
  /\ KnownJob(j)
  /\ nextBid + BidsInFlight <= MaxBids
  /\ calls' = calls + 1
  /\ LET r == Begin("createBid", caller, j, 0)
         job == JobRow(j) IN
     reqs' = [reqs EXCEPT ![p] =
       IF Role(caller) # "contractor" THEN Respond(r, "403 contractors only")
       ELSE IF ~createBidValidation(estimatedDays)
            THEN Respond(r, "400 validation failed")
       ELSE IF amount <= 0 THEN Respond(r, "400 bad amount")
       ELSE IF CreateBidJobCheck(job, caller) # "go"
            THEN Respond(r, CreateBidJobCheck(job, caller))
       ELSE [r EXCEPT !.pc = "cb_check", !.amt = amount,
                      !.days = estimatedDays]]
  /\ UNCHANGED <<roles, conversations, ratings, jobs, bids, nextJob, nextBid>>

CreateBidCheck(p, ok) ==
  /\ reqs[p].pc = "cb_check"
  /\ LET r == reqs[p]
         existingBids == {b \in BidsOfJob(r.job) :
                            bids[b].contractor_id = r.caller} IN
     reqs' = [reqs EXCEPT ![p] =
       IF ~ok THEN Respond(r, "500 bid check failed")
       ELSE IF Cardinality(existingBids) > 0 THEN Respond(r, "400 already bid")
       ELSE [r EXCEPT !.pc = "cb_insert"]]
  /\ UNCHANGED <<roles, conversations, ratings, jobs, bids, nextJob, nextBid, calls>>

\* bids has no UNIQUE (job_id, contractor_id); job_id REFERENCES jobs(id)
CreateBidInsert(p, ok) ==
  /\ reqs[p].pc = "cb_insert"
  /\ LET r == reqs[p] IN
     IF ok /\ jobs[r.job].exists THEN
       /\ bids' = [bids EXCEPT ![nextBid] =
                     [exists |-> TRUE, job_id |-> r.job,
                      contractor_id |-> r.caller, amount |-> r.amt,
                      estimated_days |-> DaysOf(r.days),
                      status |-> "pending"]]
       /\ nextBid' = nextBid + 1
       /\ reqs' = [reqs EXCEPT ![p] = Respond([r EXCEPT !.bid = nextBid], "201")]
     ELSE
       /\ UNCHANGED <<roles, conversations, ratings, bids, nextBid>>
       /\ reqs' = [reqs EXCEPT ![p] = Respond(r, "400 create bid failed")]
  /\ UNCHANGED <<roles, conversations, ratings, jobs, nextJob, calls>>

\* ------------------------------------------------- updateBid / deleteBid
\* the checks shared by updateBid and deleteBid on
\* .select('*, job:job_id(status)').eq('id', id).single()
\* the checks as they would be without the test of the bid's contractor
BidOwnerCheck_AnyContractor(existingBid, jobStatus, caller) ==
  IF ~existingBid.exists THEN "404 bid not found"
  ELSE IF existingBid.status # "pending" THEN "400 bid not pending"
  ELSE IF jobStatus # "open" THEN "400 job not open"
  ELSE "go"

BidOwnerCheck(existingBid, jobStatus, caller) ==
  IF ~existingBid.exists THEN "404 bid not found"
  ELSE IF existingBid.contractor_id # caller THEN "403 not bid owner"
  ELSE IF existingBid.status # "pending" THEN "400 bid not pending"
  ELSE IF jobStatus # "open" THEN "400 job not open"
  ELSE "go"

JobStatusOf(bid) == IF bid.exists THEN jobs[bid.job_id].status ELSE "none"

\* amount 0: no amount in the body (if (amount) ...)
UpdateBidRead(p, caller, b, amount, estimatedDays) ==
  /\ CanStart(p)
  /\ KnownBid(b)
  /\ calls' = calls + 1
  /\ LET r == Begin("updateBid", caller, 0, b)
         existingBid == BidRow(b)
         chk == BidOwnerCheck(existingBid, JobStatusOf(existingBid), caller) IN
     reqs' = [reqs EXCEPT ![p] =
       IF Role(caller) # "contractor" THEN Respond(r, "403 contractors only")
       ELSE IF chk # "go" THEN Respond(r, chk)
       ELSE [r EXCEPT !.pc = "ub_write", !.amt = amount,
                      !.days = estimatedDays,
                      !.job = existingBid.job_id]]
  /\ UNCHANGED <<roles, conversations, ratings, jobs, bids, nextJob, nextBid>>

UpdateBidWrite(p, ok) ==
  /\ reqs[p].pc = "ub_write"
  /\ LET r == reqs[p] IN
     IF ok /\ bids[r.bid].exists THEN
       /\ bids' = [bids EXCEPT
                     ![r.bid].amount = IF r.amt # 0 THEN r.amt ELSE @,
                     ![r.bid].estimated_days =
                       IF r.days # Undefined THEN DaysOf(r.days) ELSE @]
       /\ reqs' = [reqs EXCEPT ![p] = Respond(r, "200")]
     ELSE
       /\ bids' = bids
       /\ reqs' = [reqs EXCEPT ![p] = Respond(r, "400 update bid failed")]
  /\ UNCHANGED <<roles, conversations, ratings, jobs, nextJob, nextBid, calls>>

DeleteBidRead(p, caller, b) ==
  /\ CanStart(p)
  /\ KnownBid(b)
  /\ calls' = calls + 1
  /\ LET r == Begin("deleteBid", caller, 0, b)
         existingBid == BidRow(b)
         chk == BidOwnerCheck(existingBid, JobStatusOf(existingBid), caller) IN
     reqs' = [reqs EXCEPT ![p] =
       IF Role(caller) # "contractor" THEN Respond(r, "403 contractors only")
       ELSE IF chk # "go" THEN Respond(r, chk)
       ELSE [r EXCEPT !.pc = "db_delete", !.job = existingBid.job_id]]
  /\ UNCHANGED <<roles, conversations, ratings, jobs, bids, nextJob, nextBid>>

DeleteBidDelete(p, ok) ==
  /\ reqs[p].pc = "db_delete"
  /\ LET r == reqs[p] IN
     IF ok THEN
       /\ bids' = [bids EXCEPT ![r.bid] = NoBid]
       /\ reqs' = [reqs EXCEPT ![p] = Respond(r, "200")]
     ELSE
       /\ bids' = bids
       /\ reqs' = [reqs EXCEPT ![p] = Respond(r, "400 delete bid failed")]
  /\ UNCHANGED <<roles, conversations, ratings, jobs, nextJob, nextBid, calls>>

\* ------------------------------------------ getBidsForJob / getJobById
\* a nullable field of a response: <<>> is null, <<v>> the value v
Hidden == <<>>
Shown(v) == <<v>>

\* a bid as a response lists it; amount stands for the three fields amount,
\* proposal and estimated_days, which are returned or nulled together
BidView(b, redact) ==
  [id |-> b, contractor_id |-> bids[b].contractor_id,
   status |-> bids[b].status,
   amount |-> IF redact THEN Hidden ELSE Shown(bids[b].amount)]

GetBidsForJobReadJob(p, caller, j) ==
  /\ CanStart(p)
  /\ KnownJob(j)
  /\ calls' = calls + 1
  /\ LET r == Begin("getBidsForJob", caller, j, 0)
         job == JobRow(j) IN
     reqs' = [reqs EXCEPT ![p] =
       IF ~job.exists THEN Respond(r, "404 job not found")
       ELSE [r EXCEPT !.pc = "gb_read_bids",
                      !.isJobOwner = (job.customer_id = caller)]]
  /\ UNCHANGED <<roles, conversations, ratings, jobs, bids, nextJob, nextBid>>

GetBidsForJobReadBids(p, ok) ==
  /\ reqs[p].pc = "gb_read_bids"
  /\ LET r == reqs[p]
         filteredBids ==
           {BidView(b, ~r.isJobOwner /\ bids[b].contractor_id # r.caller) :
              b \in BidsOfJob(r.job)} IN
     reqs' = [reqs EXCEPT ![p] =
       IF ~ok THEN Respond(r, "400 fetch bids failed")
       ELSE Respond([r EXCEPT !.view = filteredBids], "200")]
  /\ UNCHANGED <<roles, conversations, ratings, jobs, bids, nextJob, nextBid, calls>>

\* one query returns the job with its bids
GetJobById(p, caller, j) ==
  /\ CanStart(p)
  /\ KnownJob(j)
  /\ calls' = calls + 1
  /\ LET r == Begin("getJobById", caller, j, 0)
         job == JobRow(j)
         isCustomer == job.customer_id = caller
         isContractor == job.contractor_id = caller
         filter == ~isCustomer /\ Role(caller) = "contractor" /\ ~isContractor
         jobBids ==
           {BidView(b, filter /\ bids[b].contractor_id # caller) :
              b \in BidsOfJob(j)} IN
     reqs' = [reqs EXCEPT ![p] =
       IF ~job.exists THEN Respond(r, "404 job not found")
       ELSE Respond([r EXCEPT !.view = jobBids, !.seen = Details(job)],
                    "200")]
  /\ UNCHANGED <<roles, conversations, ratings, jobs, bids, nextJob, nextBid>>

\* --------------------------------------------------------- createRating
\* the ratings a client sends (0: no rating in the body)
RatingValues == {0, 3, 6}

\* createRating handlers that have not inserted yet
RatingsInFlight ==
  Cardinality({p \in Reqs : reqs[p].pc \in {"cr_check", "cr_insert"}})

\* the checks as they would be without the test of the job's status
RatingJobCheck_AnyStatus(job, fromUserId, toUserId) ==
  IF ~job.exists THEN "404 job not found"
  ELSE IF job.customer_id # fromUserId /\ job.contractor_id # fromUserId
       THEN "403 not a party"
  ELSE IF toUserId # (IF job.customer_id = fromUserId
                      THEN job.contractor_id ELSE job.customer_id)
       THEN "400 not the other party"
  ELSE "go"

\* the checks of createRating on the job row it fetched
RatingJobCheck(job, fromUserId, toUserId) ==
  IF ~job.exists THEN "404 job not found"
  ELSE IF job.status # "completed" THEN "400 job not completed"
  ELSE IF job.customer_id # fromUserId /\ job.contractor_id # fromUserId
       THEN "403 not a party"
  ELSE IF toUserId # (IF job.customer_id = fromUserId
                      THEN job.contractor_id ELSE job.customer_id)
       THEN "400 not the other party"
  ELSE "go"

CreateRatingReadJob(p, caller, j, toUserId, rating) ==
  /\ FirstFree(p)
  /\ KnownJob(j)
  /\ Len(ratings) + RatingsInFlight < MaxRatings
  /\ LET r == Begin("createRating", caller, j, 0)
         chk == RatingJobCheck(JobRow(j), caller, toUserId) IN
     reqs' = [reqs EXCEPT ![p] =
       IF rating < 1 \/ rating > 5 THEN Respond(r, "400 bad rating")
       ELSE IF toUserId = caller THEN Respond(r, "400 cannot rate yourself")
       ELSE IF chk # "go" THEN Respond(r, chk)
       ELSE [r EXCEPT !.pc = "cr_check", !.toUserId = toUserId,
                      !.rating = rating]]
  /\ UNCHANGED <<roles, conversations, jobs, bids, ratings, nextJob, nextBid, calls>>

\* .eq('job_id', ..).eq('from_user_id', ..).eq('to_user_id', ..).single():
\* data is a row only if the query succeeds and matches exactly one row; the
\* error of the query is not looked at
CreateRatingCheck(p, ok) ==
  /\ reqs[p].pc = "cr_check"
  /\ LET r == reqs[p]
         matching == {i \in 1..Len(ratings) :
                        /\ ratings[i].job_id = r.job
                        /\ ratings[i].from_user_id = r.caller
                        /\ ratings[i].to_user_id = r.toUserId}
         existingRating == ok /\ Cardinality(matching) = 1 IN
     reqs' = [reqs EXCEPT ![p] =
       IF existingRating THEN Respond(r, "400 already rated")
       ELSE [r EXCEPT !.pc = "cr_insert"]]
  /\ UNCHANGED <<roles, conversations, jobs, bids, ratings, nextJob, nextBid, calls>>

\* ratings has no UNIQUE (job_id, from_user_id, to_user_id);
\* job_id REFERENCES jobs(id), CHECK (rating >= 1 AND rating <= 5)
CreateRatingInsert(p, ok) ==
  /\ reqs[p].pc = "cr_insert"
  /\ LET r == reqs[p] IN
     IF ok /\ jobs[r.job].exists /\ r.rating >= 1 /\ r.rating <= 5 THEN
       /\ ratings' = Append(ratings,
                       [job_id |-> r.job, from_user_id |-> r.caller,
                        to_user_id |-> r.toUserId, rating |-> r.rating])
       /\ reqs' = [reqs EXCEPT ![p] = Respond(r, "201")]
     ELSE
       /\ ratings' = ratings
       /\ reqs' = [reqs EXCEPT ![p] = Respond(r, "400 create rating failed")]
  /\ UNCHANGED <<roles, conversations, jobs, bids, nextJob, nextBid, calls>>

\* ---------------------------------------------- getOrCreateConversation
\* the users that open conversations, and the ids they name: a user's, or
\* the well-formed id of no user
ChatUsers == {"c1", "k1", "k2"}
NoUser == "u0"
OtherUserIds == ChatUsers \cup {NoUser}

\* .or(user1_id.eq.A,user2_id.eq.A).or(user1_id.eq.B,user2_id.eq.B): the two
\* filters are both applied
ConversationsOf(currentUserId, otherUserId) ==
  {c \in conversations :
     /\ c[1] = currentUserId \/ c[2] = currentUserId
     /\ c[1] = otherUserId \/ c[2] = otherUserId}

\* the tests on the body and the read of the other user (no request adds
\* or removes a user); currentUserId and otherUserId are both fields of
\* req.body, caller is the authenticated user
GetOrCreateConversationStart(p, caller, currentUserId, otherUserId) ==
  /\ CanStart(p)
  /\ calls' = calls + 1
  /\ LET r == Begin("getOrCreateConversation", caller, 0, 0) IN
     reqs' = [reqs EXCEPT ![p] =
       IF currentUserId = otherUserId
       THEN Respond(r, "400 conversation with yourself")
       ELSE IF otherUserId \notin Users THEN Respond(r, "404 user not found")
       ELSE [r EXCEPT !.pc = "gc_find", !.otherUserId = otherUserId,
                      !.currentUserId = currentUserId]]
  /\ UNCHANGED <<roles, conversations, jobs, bids, ratings, nextJob, nextBid>>

\* .single(): data is a row only if the query succeeds and matches exactly
\* one row; the error of the query is not looked at
GetOrCreateConversationFind(p, ok) ==
  /\ reqs[p].pc = "gc_find"
  /\ LET r == reqs[p]
         existingConversation ==
           ok /\ Cardinality(ConversationsOf(r.currentUserId,
                                              r.otherUserId)) = 1 IN
     reqs' = [reqs EXCEPT ![p] =
       IF existingConversation THEN Respond(r, "200")
       ELSE [r EXCEPT !.pc = "gc_insert"]]
  /\ UNCHANGED <<roles, conversations, jobs, bids, ratings, nextJob, nextBid, calls>>

\* insert (user1_id: currentUserId, user2_id: otherUserId) under
\* UNIQUE(user1_id, user2_id) and user1_id REFERENCES users(id)
GetOrCreateConversationInsert(p, ok) ==
  /\ reqs[p].pc = "gc_insert"
  /\ LET r == reqs[p]
         row == <<r.currentUserId, r.otherUserId>> IN
     IF ok /\ row \notin conversations /\ r.currentUserId \in Users THEN
       /\ conversations' = conversations \cup {row}
       /\ reqs' = [reqs EXCEPT ![p] = Respond(r, "201")]
     ELSE
       /\ conversations' = conversations
       /\ reqs' = [reqs EXCEPT ![p] =
                     Respond(r, "400 create conversation failed")]
  /\ UNCHANGED <<roles, jobs, bids, ratings, nextJob, nextBid, calls>>

\* ------------------------------------------------------- paginated lists
\* A value of req.query is a string of decimal digits, here the sequence of
\* its digits; Absent: the parameter is not in the query.
Absent == <<>>

\* the number that a string of digits is converted to (page - 1, ... * limit)
RECURSIVE Number(_)
Number(s) ==
  IF s = <<>> THEN 0 ELSE 10 * Number(SubSeq(s, 1, Len(s) - 1)) + s[Len(s)]

\* the string that a number is converted to (from + limit, limit a string)
RECURSIVE String(_)
String(n) ==
  IF n < 10 THEN <<n>> ELSE String(n \div 10) \o <<n % 10>>

\* const { page = 1, limit = defaultLimit } = req.query;
\* from = (page - 1) * limit; to = from + limit - 1: the operator + adds two
\* numbers and concatenates a number and a string
PageRange(page, limit, defaultLimit) ==
  LET pageNumber == IF page = Absent THEN 1 ELSE Number(page)
      limitNumber == IF limit = Absent THEN defaultLimit ELSE Number(limit)
      from == (pageNumber - 1) * limitNumber
      to == IF limit = Absent THEN from + defaultLimit - 1
            ELSE Number(String(from) \o limit) - 1 IN
  <<from, to>>

\* getJobs: .range(from, to) on jobs
GetJobs(p, caller, page, limit) ==
  /\ CanStart(p)
  /\ calls' = calls + 1
  /\ LET r == Begin("getJobs", caller, 0, 0) IN
     reqs' = [reqs EXCEPT ![p] =
       Respond([r EXCEPT !.page = page, !.limit = limit,
                         !.range = PageRange(page, limit, 10)], "200")]
  /\ UNCHANGED <<roles, conversations, ratings, jobs, bids, nextJob, nextBid>>

\* getMyBids: .range(from, to) on the bids of the contractor
GetMyBids(p, caller, page, limit) ==
  /\ CanStart(p)
  /\ calls' = calls + 1
  /\ LET r == Begin("getMyBids", caller, 0, 0) IN
     reqs' = [reqs EXCEPT ![p] =
       IF Role(caller) # "contractor" THEN Respond(r, "403 contractors only")
       ELSE Respond([r EXCEPT !.page = page, !.limit = limit,
                              !.range = PageRange(page, limit, 10)], "200")]
  /\ UNCHANGED <<roles, conversations, ratings, jobs, bids, nextJob, nextBid>>

\* getMessages: the conversation (named by its row) is read with the caller
\* as one of its users, then .range(from, to) on its messages
GetMessages(p, caller, conversation, page, limit) ==
  /\ CanStart(p)
  /\ calls' = calls + 1
  /\ LET r == Begin("getMessages", caller, 0, 0) IN
     reqs' = [reqs EXCEPT ![p] =
       IF conversation \notin conversations
          \/ caller \notin {conversation[1], conversation[2]}
       THEN Respond(r, "404 conversation not found")
       ELSE Respond([r EXCEPT !.page = page, !.limit = limit,
                              !.range = PageRange(page, limit, 20)], "200")]
  /\ UNCHANGED <<roles, conversations, ratings, jobs, bids, nextJob, nextBid>>

\* ------------------------------------------------------- specification
Next ==
  \/ \E p \in Reqs, u \in Callers, body \in {PostedFields, NoFields},
          ok \in BOOLEAN :
       CreateJob(p, u, body, ok) /\ nextJob' <= MaxJobs + 1
  \/ \E p \in Reqs, u \in Callers, j \in ReqJobIds, s \in PatchStatuses :
       UpdateJobRead(p, u, j, s, NoFields)
  \/ \E p \in Reqs, ok \in BOOLEAN : UpdateJobWrite(p, ok)
  \/ \E p \in Reqs, u \in Callers, j \in ReqJobIds : DeleteJobRead(p, u, j)
  \/ \E p \in Reqs, ok \in BOOLEAN : DeleteJobCount(p, ok)
  \/ \E p \in Reqs, ok \in BOOLEAN : DeleteJobDelete(p, ok)
  \/ \E p \in Reqs, u \in Callers, j \in ReqJobIds, b \in ReqBidIds :
       AcceptReadJob(p, u, j, b)
  \/ \E p \in Reqs : AcceptReadBid(p)
  \/ \E p \in Reqs, ok \in BOOLEAN : AcceptUpdateJob(p, ok)
  \/ \E p \in Reqs, ok \in BOOLEAN : AcceptUpdateBid(p, ok)
  \/ \E p \in Reqs, ok \in BOOLEAN : AcceptRollback(p, ok)
  \/ \E p \in Reqs, ok \in BOOLEAN : AcceptRejectOthers(p, ok)
  \/ \E p \in Reqs, u \in Callers, j \in ReqJobIds, a \in NewAmounts :
       CreateBidReadJob(p, u, j, a, Undefined)
  \/ \E p \in Reqs, ok \in BOOLEAN : CreateBidCheck(p, ok)
  \/ \E p \in Reqs, ok \in BOOLEAN : CreateBidInsert(p, ok)
  \/ \E p \in Reqs, u \in Callers, b \in ReqBidIds, a \in PatchAmounts :
       UpdateBidRead(p, u, b, a, Undefined)
  \/ \E p \in Reqs, ok \in BOOLEAN : UpdateBidWrite(p, ok)
  \/ \E p \in Reqs, u \in Callers, b \in ReqBidIds : DeleteBidRead(p, u, b)
  \/ \E p \in Reqs, ok \in BOOLEAN : DeleteBidDelete(p, ok)

Spec == Init /\ [][Next]_vars

\* ------------------------------------ posting and editing a job's details
\* bodies of POST /jobs
Bodies ==
  {PostedFields, NoFields,
   [PostedFields EXCEPT !.title = " T1 ", !.location = ""],
   [PostedFields EXCEPT !.budget = "0"],
   [PostedFields EXCEPT !.budget = "-5"],
   [PostedFields EXCEPT !.location = Undefined, !.images = "I1"],
   [PostedFields EXCEPT !.title = ""]}

\* bodies of PUT /jobs/:id, next to the status: no field, or one field
Patches ==
  {NoFields,
   [NoFields EXCEPT !.title = "T2"],
   [NoFields EXCEPT !.description = "D2"],
   [NoFields EXCEPT !.category = "C2"],
   [NoFields EXCEPT !.budget = "70"],
   [NoFields EXCEPT !.budget = "-5"],
   [NoFields EXCEPT !.location = "L2"],
   [NoFields EXCEPT !.location = ""],
   [NoFields EXCEPT !.images = "I2"]}

\* the requests of SpecDetails are served one at a time
Serial == {"r1"}
\* the users that issue them
DetailCallers == {"c1", "k1"}

NextDetails ==
  \/ \E p \in Serial, u \in DetailCallers, body \in Bodies, ok \in BOOLEAN :
       CreateJob(p, u, body, ok) /\ nextJob' <= MaxJobs + 1
  \/ \E p \in Serial, u \in DetailCallers, j \in ReqJobIds, s \in PatchStatuses,
          patch \in Patches :
       UpdateJobRead(p, u, j, s, patch)
  \/ \E p \in Serial, ok \in BOOLEAN : UpdateJobWrite(p, ok)
  \/ \E p \in Serial, u \in DetailCallers, j \in ReqJobIds, b \in ReqBidIds :
       AcceptReadJob(p, u, j, b)
  \/ \E p \in Serial : AcceptReadBid(p)
  \/ \E p \in Serial, ok \in BOOLEAN : AcceptUpdateJob(p, ok)
  \/ \E p \in Serial, ok \in BOOLEAN : AcceptUpdateBid(p, ok)
  \/ \E p \in Serial, ok \in BOOLEAN : AcceptRollback(p, ok)
  \/ \E p \in Serial, ok \in BOOLEAN : AcceptRejectOthers(p, ok)
  \/ \E p \in Serial, u \in DetailCallers, j \in ReqJobIds, a \in NewAmounts :
       CreateBidReadJob(p, u, j, a, Undefined)
  \/ \E p \in Serial, ok \in BOOLEAN : CreateBidCheck(p, ok)
  \/ \E p \in Serial, ok \in BOOLEAN : CreateBidInsert(p, ok)
  \/ \E p \in Serial, u \in DetailCallers, j \in ReqJobIds :
       GetJobById(p, u, j)

SpecDetails == Init /\ [][NextDetails]_vars

\* ---------------------------------------- requests by a second customer
\* the users that issue the requests of SpecAuth
AuthCallers == {"c1", "c2", "k1"}

NextAuth ==
  \/ \E p \in Reqs, u \in AuthCallers, body \in {PostedFields, NoFields},
          ok \in BOOLEAN :
       CreateJob(p, u, body, ok) /\ nextJob' <= MaxJobs + 1
  \/ \E p \in Reqs, u \in AuthCallers, j \in ReqJobIds, s \in PatchStatuses :
       UpdateJobRead(p, u, j, s, NoFields)
  \/ \E p \in Reqs, ok \in BOOLEAN : UpdateJobWrite(p, ok)
  \/ \E p \in Reqs, u \in AuthCallers, j \in ReqJobIds : DeleteJobRead(p, u, j)
  \/ \E p \in Reqs, ok \in BOOLEAN : DeleteJobCount(p, ok)
  \/ \E p \in Reqs, ok \in BOOLEAN : DeleteJobDelete(p, ok)
  \/ \E p \in Reqs, u \in AuthCallers, j \in ReqJobIds, b \in ReqBidIds :
       AcceptReadJob(p, u, j, b)
  \/ \E p \in Reqs : AcceptReadBid(p)
  \/ \E p \in Reqs, ok \in BOOLEAN : AcceptUpdateJob(p, ok)
  \/ \E p \in Reqs, ok \in BOOLEAN : AcceptUpdateBid(p, ok)
  \/ \E p \in Reqs, ok \in BOOLEAN : AcceptRollback(p, ok)
  \/ \E p \in Reqs, ok \in BOOLEAN : AcceptRejectOthers(p, ok)
  \/ \E p \in Reqs, u \in AuthCallers, j \in ReqJobIds, a \in NewAmounts :
       CreateBidReadJob(p, u, j, a, Undefined)
  \/ \E p \in Reqs, ok \in BOOLEAN : CreateBidCheck(p, ok)
  \/ \E p \in Reqs, ok \in BOOLEAN : CreateBidInsert(p, ok)
  \/ \E p \in Reqs, u \in AuthCallers, b \in ReqBidIds, a \in PatchAmounts :
       UpdateBidRead(p, u, b, a, Undefined)
  \/ \E p \in Reqs, ok \in BOOLEAN : UpdateBidWrite(p, ok)
  \/ \E p \in Reqs, u \in AuthCallers, b \in ReqBidIds : DeleteBidRead(p, u, b)
  \/ \E p \in Reqs, ok \in BOOLEAN : DeleteBidDelete(p, ok)


SpecAuth == Init /\ [][NextAuth]_vars

\* ------------------------------------------------- listing a job's bids
NextViews ==
  \/ \E p \in Reqs, u \in Users, ok \in BOOLEAN :
       CreateJob(p, u, PostedFields, ok) /\ nextJob' <= MaxJobs + 1
  \/ \E p \in Reqs, u \in Users, j \in ReqJobIds, b \in ReqBidIds :
       AcceptReadJob(p, u, j, b)
  \/ \E p \in Reqs : AcceptReadBid(p)
  \/ \E p \in Reqs, ok \in BOOLEAN : AcceptUpdateJob(p, ok)
  \/ \E p \in Reqs, ok \in BOOLEAN : AcceptUpdateBid(p, ok)
  \/ \E p \in Reqs, ok \in BOOLEAN : AcceptRollback(p, ok)
  \/ \E p \in Reqs, ok \in BOOLEAN : AcceptRejectOthers(p, ok)
  \/ \E p \in Reqs, u \in Users, j \in ReqJobIds, a \in NewAmounts :
       CreateBidReadJob(p, u, j, a, Undefined)
  \/ \E p \in Reqs, ok \in BOOLEAN : CreateBidCheck(p, ok)
  \/ \E p \in Reqs, ok \in BOOLEAN : CreateBidInsert(p, ok)
  \/ \E p \in Reqs, u \in Users, j \in ReqJobIds :
       GetBidsForJobReadJob(p, u, j)
  \/ \E p \in Reqs, ok \in BOOLEAN : GetBidsForJobReadBids(p, ok)
  \/ \E p \in Reqs, u \in Users, j \in ReqJobIds : GetJobById(p, u, j)

SpecViews == Init /\ [][NextViews]_vars

\* ------------------------------------------------- rating a completed job
NextRatings ==
  \/ \E p \in Reqs, u \in Callers, ok \in BOOLEAN :
       CreateJob(p, u, PostedFields, ok) /\ nextJob' <= MaxJobs + 1
  \/ \E p \in Reqs, u \in Callers, j \in ReqJobIds, s \in JobStatuses :
       UpdateJobRead(p, u, j, s, NoFields)
  \/ \E p \in Reqs, ok \in BOOLEAN : UpdateJobWrite(p, ok)
  \/ \E p \in Reqs, u \in Callers, j \in ReqJobIds, b \in ReqBidIds :
       AcceptReadJob(p, u, j, b)
  \/ \E p \in Reqs : AcceptReadBid(p)
  \/ \E p \in Reqs, ok \in BOOLEAN : AcceptUpdateJob(p, ok)
  \/ \E p \in Reqs, ok \in BOOLEAN : AcceptUpdateBid(p, ok)
  \/ \E p \in Reqs, ok \in BOOLEAN : AcceptRollback(p, ok)
  \/ \E p \in Reqs, ok \in BOOLEAN : AcceptRejectOthers(p, ok)
  \/ \E p \in Reqs, u \in Callers, j \in ReqJobIds, a \in NewAmounts :
       CreateBidReadJob(p, u, j, a, Undefined)
  \/ \E p \in Reqs, ok \in BOOLEAN : CreateBidCheck(p, ok)
  \/ \E p \in Reqs, ok \in BOOLEAN : CreateBidInsert(p, ok)
  \/ \E p \in Reqs, u \in Callers, j \in ReqJobIds, t \in Callers,
          v \in RatingValues :
       CreateRatingReadJob(p, u, j, t, v)
  \/ \E p \in Reqs, ok \in BOOLEAN : CreateRatingCheck(p, ok)
  \/ \E p \in Reqs, ok \in BOOLEAN : CreateRatingInsert(p, ok)

SpecRatings == Init /\ [][NextRatings]_vars

\* ------------------------------------------------ opening conversations
NextChat ==
  \/ \E p \in Reqs, u \in ChatUsers, c \in OtherUserIds, o \in OtherUserIds :
       GetOrCreateConversationStart(p, u, c, o)
  \/ \E p \in Reqs, ok \in BOOLEAN : GetOrCreateConversationFind(p, ok)
  \/ \E p \in Reqs, ok \in BOOLEAN : GetOrCreateConversationInsert(p, ok)

SpecChat == Init /\ [][NextChat]_vars
\* ------------------------------------------ accepting a bid, two jobs
\* the users that issue the requests of SpecTwoJobs
TwoJobsCallers == {"c1", "k1"}

NextTwoJobs ==
  \/ \E p \in Reqs, u \in TwoJobsCallers, ok \in BOOLEAN :
       CreateJob(p, u, PostedFields, ok)
  \/ \E p \in Reqs, u \in TwoJobsCallers, j \in ReqJobIds,
          s \in {"cancelled"} :
       UpdateJobRead(p, u, j, s, NoFields)
  \/ \E p \in Reqs, ok \in BOOLEAN : UpdateJobWrite(p, ok)
  \/ \E p \in Reqs, u \in TwoJobsCallers, j \in ReqJobIds, b \in ReqBidIds :
       AcceptReadJob(p, u, j, b)
  \/ \E p \in Reqs : AcceptReadBid(p)
  \/ \E p \in Reqs, ok \in BOOLEAN : AcceptUpdateJob(p, ok)
  \/ \E p \in Reqs, ok \in BOOLEAN : AcceptUpdateBid(p, ok)
  \/ \E p \in Reqs, ok \in BOOLEAN : AcceptRollback(p, ok)
  \/ \E p \in Reqs, ok \in BOOLEAN : AcceptRejectOthers(p, ok)
  \/ \E p \in Reqs, u \in TwoJobsCallers, j \in ReqJobIds, a \in NewAmounts :
       CreateBidReadJob(p, u, j, a, Undefined)
  \/ \E p \in Reqs, ok \in BOOLEAN : CreateBidCheck(p, ok)
  \/ \E p \in Reqs, ok \in BOOLEAN : CreateBidInsert(p, ok)

SpecTwoJobs == Init /\ [][NextTwoJobs]_vars


\* ------------------------------------- the amount and days of a bid
\* amounts and estimatedDays a client sends in POST /bids and PUT /bids/:id
BidAmounts == {0, 10, -5}
BidDays == {Undefined, "2", "-3"}
\* the users that issue the requests of SpecBids
BidCallers == {"c1", "k1"}

NextBids ==
  \/ \E p \in Reqs, ok \in BOOLEAN :
       CreateJob(p, "c1", PostedFields, ok) /\ nextJob' <= MaxJobs + 1
  \/ \E p \in Reqs, u \in BidCallers, j \in ReqJobIds, a \in BidAmounts,
          d \in BidDays :
       CreateBidReadJob(p, u, j, a, d)
  \/ \E p \in Reqs, ok \in BOOLEAN : CreateBidCheck(p, ok)
  \/ \E p \in Reqs, ok \in BOOLEAN : CreateBidInsert(p, ok)
  \/ \E p \in Reqs, u \in BidCallers, b \in ReqBidIds, a \in BidAmounts,
          d \in BidDays :
       UpdateBidRead(p, u, b, a, d)
  \/ \E p \in Reqs, ok \in BOOLEAN : UpdateBidWrite(p, ok)

SpecBids == Init /\ [][NextBids]_vars

\* -------------------------------------------- users whose role changes
\* the users that issue the requests of SpecRoles
RoleCallers == {"c1", "k1"}

\* users.role is changed in the store, outside the API (verifyUserExists
\* reads it again for every request "in case it changed")
ChangeRole(u) ==
  /\ roles' = [roles EXCEPT ![u] =
                 IF @ = "customer" THEN "contractor" ELSE "customer"]
  /\ UNCHANGED <<conversations, jobs, bids, ratings, nextJob, nextBid,
                 reqs, calls>>

NextRoles ==
  \/ \E p \in Reqs, u \in RoleCallers, ok \in BOOLEAN :
       CreateJob(p, u, PostedFields, ok) /\ nextJob' <= MaxJobs + 1
  \/ \E p \in Reqs, u \in RoleCallers, j \in ReqJobIds, b \in ReqBidIds :
       AcceptReadJob(p, u, j, b)
  \/ \E p \in Reqs : AcceptReadBid(p)
  \/ \E p \in Reqs, ok \in BOOLEAN : AcceptUpdateJob(p, ok)
  \/ \E p \in Reqs, ok \in BOOLEAN : AcceptUpdateBid(p, ok)
  \/ \E p \in Reqs, ok \in BOOLEAN : AcceptRollback(p, ok)
  \/ \E p \in Reqs, ok \in BOOLEAN : AcceptRejectOthers(p, ok)
  \/ \E p \in Reqs, u \in RoleCallers, j \in ReqJobIds, a \in NewAmounts :
       CreateBidReadJob(p, u, j, a, Undefined)
  \/ \E p \in Reqs, ok \in BOOLEAN : CreateBidCheck(p, ok)
  \/ \E p \in Reqs, ok \in BOOLEAN : CreateBidInsert(p, ok)
  \/ \E u \in RoleCallers : ChangeRole(u)

SpecRoles == Init /\ [][NextRoles]_vars

\* --------------------------------------------------- listing the pages
\* the page and limit of a query, and the users that send it
QueryPages == {Absent, <<1>>, <<2>>, <<3>>}
QueryLimits == {Absent, <<1>>, <<5>>, <<1, 0>>}
PageCallers == {"c1", "k1"}

NextPages ==
  \/ \E p \in Reqs, u \in PageCallers, page \in QueryPages,
          limit \in QueryLimits :
       GetJobs(p, u, page, limit)
  \/ \E p \in Reqs, u \in PageCallers, page \in QueryPages,
          limit \in QueryLimits :
       GetMyBids(p, u, page, limit)
  \/ \E p \in Reqs, u \in PageCallers, page \in QueryPages,
          limit \in QueryLimits :
       GetMessages(p, u, <<"c1", "k1">>, page, limit)
  \/ \E p \in Reqs : GetOrCreateConversationStart(p, "c1", "c1", "k1")
  \/ \E p \in Reqs, ok \in BOOLEAN : GetOrCreateConversationFind(p, ok)
  \/ \E p \in Reqs, ok \in BOOLEAN : GetOrCreateConversationInsert(p, ok)

SpecPages == Init /\ [][NextPages]_vars

\* =============================================================== claims

\* p and q are assignContractor calls on the same job that name two different
\* bids of the job, by two contractors, and each found the job open, and its
\* own bid, while the other's bid was still pending
ConcurrentAccepts(p, q) ==
  /\ p # q
  /\ reqs[p].op = "acceptBid" /\ reqs[q].op = "acceptBid"
  /\ reqs[p].job = reqs[q].job /\ reqs[p].bid # reqs[q].bid
  /\ reqs[p].snap # Null /\ reqs[q].snap # Null /\ reqs[p].snap # reqs[q].snap
  /\ reqs[q].bid \in reqs[p].pend /\ reqs[p].bid \in reqs[q].pend

\* responses of assignContractor after a failed write
StorageFailures == {"400 assign failed", "400 bid update failed"}

\* the response a losing assignContractor is to get ("job no longer open")
IsConflict(res) == res \in {"409 job no longer open", "400 job not open"}

\* C1: of two concurrent acceptBid calls on the same open job with two
\* different bids of that job (no write failing), exactly one returns
\* success, the other returns ConflictError, and the job has the contractor
\* of the winner's bid.
C1_ExactlyOneAcceptWins ==
  \A p, q \in Reqs :
    ( /\ ConcurrentAccepts(p, q)
      /\ reqs[p].pc = "done" /\ reqs[q].pc = "done"
      /\ reqs[p].result \notin StorageFailures /\ ~reqs[p].s3failed
      /\ reqs[q].result \notin StorageFailures /\ ~reqs[q].s3failed
      /\ IsSuccess(reqs[p].result) )
    => /\ IsConflict(reqs[q].result)
       /\ jobs[reqs[p].job].contractor_id = reqs[p].snap

\* the step in which request p sends its response
Returns(p) == reqs[p].pc \notin {"idle", "done"} /\ reqs'[p].pc = "done"

\* C2: when an acceptBid call returns success and its sibling-rejection write
\* did not fail, exactly one bid of the job is accepted, namely the bid named
\* in the call, and every other bid of the job that was pending when the call
\* started is rejected.
C2_AcceptedAndSiblingsRejected ==
  [][\A p \in Reqs :
       ( /\ reqs[p].op = "acceptBid" /\ Returns(p)
         /\ IsSuccess(reqs'[p].result) /\ ~reqs'[p].s3failed )
       => /\ {b \in BidIds : bids'[b].exists /\ bids'[b].job_id = reqs[p].job
                              /\ bids'[b].status = "accepted"} = {reqs[p].bid}
          /\ \A b \in reqs[p].pend : bids'[b].status = "rejected"]_vars

\* the transition table of the job status
TransitionTable ==
  {<<"open", "in_progress">>, <<"open", "cancelled">>,
   <<"in_progress", "completed">>, <<"in_progress", "cancelled">>}

\* the step is the compensating update of an acceptBid call
RollbackStep == \E p \in Reqs : reqs[p].pc = "ab_rollback" /\ reqs'[p].pc = "done"

\* C3: every job's status is one of open, in_progress, completed, cancelled,
\* and every change of a job's status is one of open->in_progress,
\* open->cancelled, in_progress->completed, in_progress->cancelled (the
\* compensating reset in_progress->open of an acceptBid whose step 2 failed
\* is granted); a call answered with the invalid-transition error leaves the
\* jobs unchanged.
C3_OnlyTableTransitions ==
  [][/\ \A j \in JobIds :
          (jobs[j].exists /\ jobs'[j].exists /\ jobs'[j].status # jobs[j].status)
          => \/ <<jobs[j].status, jobs'[j].status>> \in TransitionTable
             \/ /\ RollbackStep
                /\ jobs[j].status = "in_progress" /\ jobs'[j].status = "open"
     /\ \A j \in JobIds : jobs'[j].exists => jobs'[j].status \in JobStatuses
     /\ \A p \in Reqs :
          (reqs'[p] # reqs[p] /\ reqs'[p].result = "400 invalid transition")
          => jobs' = jobs]_vars

\* C4: an open job has no contractor, an in_progress or completed job has
\* one, and a cancelled job keeps the contractor it had when it was cancelled.
C4_ContractorIffAssigned ==
  [][\A j \in JobIds : jobs'[j].exists =>
       /\ jobs'[j].status = "open" => jobs'[j].contractor_id = Null
       /\ jobs'[j].status \in {"in_progress", "completed"}
            => jobs'[j].contractor_id # Null
       /\ (jobs'[j].status = "cancelled" /\ jobs[j].exists)
            => jobs'[j].contractor_id = jobs[j].contractor_id]_vars

\* C5: there is at most one bid for each (job, contractor) pair.
C5_OneBidPerJobAndContractor ==
  \A b1, b2 \in BidIds :
    ( /\ b1 # b2 /\ bids[b1].exists /\ bids[b2].exists
      /\ bids[b1].job_id = bids[b2].job_id )
    => bids[b1].contractor_id # bids[b2].contractor_id

\* C6: no update of an updateJob call changes a job's status from open to
\* in_progress.
C6_UpdateJobNeverStartsJob ==
  [][\A p \in Reqs :
       (reqs[p].pc = "uj_write" /\ reqs'[p].pc = "done")
       => ~( /\ jobs[reqs[p].job].status = "open"
             /\ jobs'[reqs[p].job].status = "in_progress" )]_vars

\* C7: an acceptBid call whose job update succeeded and that returns an error
\* leaves the job open with no contractor and has changed no bid's status.
C7_ErrorLeavesJobOpen ==
  [][\A p \in Reqs :
       ( /\ reqs[p].op = "acceptBid" /\ Returns(p)
         /\ reqs[p].wrote /\ ~IsSuccess(reqs'[p].result) )
       => /\ jobs'[reqs[p].job].status = "open"
          /\ jobs'[reqs[p].job].contractor_id = Null
          /\ bids' = bids]_vars

\* C8: when the write that rejects the sibling bids fails, the call returns
\* success and neither the job nor any bid is changed (nothing is rolled
\* back).
C8_RejectFailureIsNotFatal ==
  [][\A p \in Reqs :
       (reqs[p].pc = "ab_reject_others" /\ reqs'[p].s3failed)
       => /\ reqs'[p].pc = "done" /\ IsSuccess(reqs'[p].result)
          /\ jobs' = jobs /\ bids' = bids]_vars

\* C8 witness: an acceptBid call returned success although its
\* sibling-rejection write failed: the job is in progress with the accepted
\* bid's contractor, the bid is accepted and a sibling is still pending.
C8_Witness ==
  \E p \in Reqs :
    /\ reqs[p].op = "acceptBid" /\ reqs[p].pc = "done" /\ reqs[p].s3failed
    /\ reqs[p].result = "200"
    /\ jobs[reqs[p].job].status = "in_progress"
    /\ jobs[reqs[p].job].contractor_id = bids[reqs[p].bid].contractor_id
    /\ bids[reqs[p].bid].status = "accepted"
    /\ \E b \in reqs[p].pend : bids[b].status = "pending"

\* C9: once a job's status is not open, no bid of the job has its amount
\* changed and no bid of the job is deleted.
C9_BidsFrozenOnceJobLeavesOpen ==
  [][\A b \in BidIds :
       (bids[b].exists /\ jobs[bids[b].job_id].status # "open")
       => /\ bids'[b].exists
          /\ bids'[b].amount = bids[b].amount]_vars

\* C10: at the moment a bid is inserted its job is open.
C10_BidsCreatedWhileJobOpen ==
  [][\A b \in BidIds :
       (~bids[b].exists /\ bids'[b].exists)
       => jobs[bids'[b].job_id].status = "open"]_vars

\* C11: an updateJob call by the owner that requests a status on a completed
\* or cancelled job, the job's own status included, is answered with the
\* invalid-transition error as soon as it has read the job, and leaves the
\* job unchanged.
C11_TerminalJobRejectsStatus ==
  [][\A p \in Reqs, j \in JobIds, s \in JobStatuses :
       ( /\ jobs[j].exists /\ jobs[j].status \in {"completed", "cancelled"}
         /\ UpdateJobRead(p, jobs[j].customer_id, j, s, NoFields) )
       => /\ reqs'[p].pc = "done"
          /\ reqs'[p].result = "400 invalid transition"
          /\ jobs' = jobs]_vars

\* C12: an updateJob call whose patch carries a detail field does not update
\* a job that is not open: it is not answered with success and no field of
\* the job changes.
C12_DetailsFrozenUnlessOpen ==
  [][\A p \in Reqs :
       ( /\ reqs[p].pc = "uj_write" /\ reqs[p].patch # NoFields
         /\ jobs[reqs[p].job].exists /\ jobs[reqs[p].job].status # "open" )
       => /\ reqs'[p].pc = "done" /\ ~IsSuccess(reqs'[p].result)
          /\ jobs' = jobs]_vars

\* C13: no updateBid or deleteBid call changes or removes a bid that is not
\* pending, or whose job is not open: the write of such a call is not
\* answered with success and leaves the bids as they were.
C13_SettledBidNeverChanged ==
  [][\A p \in Reqs :
       ( /\ reqs[p].pc \in {"ub_write", "db_delete"}
         /\ bids[reqs[p].bid].exists
         /\ \/ bids[reqs[p].bid].status # "pending"
            \/ jobs[bids[reqs[p].bid].job_id].status # "open"
         /\ reqs'[p].pc = "done" )
       => /\ ~IsSuccess(reqs'[p].result)
          /\ bids' = bids]_vars

C15_JobRemovedOnlyOpenAndUnreferenced ==
  [][/\ \A j \in JobIds :
          (jobs[j].exists /\ ~jobs'[j].exists)
          => /\ \E p \in Reqs :
                  /\ reqs[p].pc = "dj_delete" /\ reqs'[p].pc = "done"
                  /\ reqs[p].job = j /\ reqs[p].caller = jobs[j].customer_id
             /\ jobs[j].status = "open"
             /\ BidsOfJob(j) = {}
     /\ \A b \in BidIds :
          bids'[b].exists => jobs'[bids'[b].job_id].exists]_vars

\* C16: an updateJob, deleteJob or acceptBid call on a job by a caller who is
\* not the job's owning customer is answered with an authorization error as
\* soon as it has read the job, and changes no job and no bid.
C16_NonOwnerDenied ==
  [][\A p \in Reqs :
       ( /\ calls' # calls /\ CanStart(p)
         /\ reqs'[p].op \in {"updateJob", "deleteJob", "acceptBid"} )
       => \/ /\ reqs'[p].pc = "done"
             /\ reqs'[p].result \in {"403 customers only", "403 not job owner"}
             /\ jobs' = jobs /\ bids' = bids
          \/ \A u \in AuthCallers, j \in JobIds :
               (jobs[j].exists /\ u # jobs[j].customer_id)
               => ~( \/ \E s \in PatchStatuses :
                          UpdateJobRead(p, u, j, s, NoFields)
                     \/ DeleteJobRead(p, u, j)
                     \/ \E b \in ReqBidIds : AcceptReadJob(p, u, j, b) )]_vars

\* C16 witness: an acceptBid call by a customer who does not own the open
\* job, naming a pending bid of the job, was answered "not job owner"; the
\* job is still open with no contractor and the bid still pending.
C16_Witness ==
  \E p \in Reqs :
    /\ reqs[p].op = "acceptBid" /\ reqs[p].pc = "done"
    /\ reqs[p].result = "403 not job owner"
    /\ Role(reqs[p].caller) = "customer"
    /\ jobs[reqs[p].job].exists
    /\ jobs[reqs[p].job].customer_id # reqs[p].caller
    /\ jobs[reqs[p].job].status = "open"
    /\ jobs[reqs[p].job].contractor_id = Null
    /\ reqs[p].bid \in PendingBidsOfJob(reqs[p].job)

\* C17: a createBid call by a caller whose role is not contractor, and an
\* updateBid or deleteBid call on a bid by a caller who is not the bid's
\* contractor, is answered with an authorization error as soon as it starts
\* (resp. has read the bid), and changes no bid and no job.
C17_NonContractorDenied ==
  [][\A p \in Reqs :
       ( /\ calls' # calls /\ CanStart(p)
         /\ reqs'[p].op \in {"createBid", "updateBid", "deleteBid"} )
       => \/ /\ reqs'[p].pc = "done"
             /\ reqs'[p].result \in {"403 contractors only", "403 not bid owner"}
             /\ jobs' = jobs /\ bids' = bids
          \/ /\ \A u \in Callers, j \in ReqJobIds, a \in NewAmounts :
                  Role(u) # "contractor" => ~CreateBidReadJob(p, u, j, a, Undefined)
             /\ \A u \in Callers, b \in BidIds :
                  (bids[b].exists /\ u # bids[b].contractor_id)
                  => ~( \/ \E a \in PatchAmounts : UpdateBidRead(p, u, b, a, Undefined)
                        \/ DeleteBidRead(p, u, b) )]_vars

\* C17 witness: a deleteBid call by a contractor on a pending bid of another
\* contractor was answered "not bid owner" and both contractors' bids are
\* still pending.
C17_Witness ==
  /\ \E p \in Reqs :
       /\ reqs[p].op = "deleteBid" /\ reqs[p].pc = "done"
       /\ reqs[p].result = "403 not bid owner"
  /\ \E b1, b2 \in BidIds :
       /\ bids[b1].exists /\ bids[b1].status = "pending"
       /\ bids[b2].exists /\ bids[b2].status = "pending"
       /\ bids[b1].contractor_id # bids[b2].contractor_id

\* C18: in every list of a job's bids returned (by getBidsForJob or
\* getJobById) to a viewer who is not the job's owning customer, each bid
\* that is not the viewer's own has its amount (and with it proposal and
\* estimated_days) null.
C18_OthersBidsRedacted ==
  \A p \in Reqs :
    ( /\ reqs[p].op \in {"getBidsForJob", "getJobById"}
      /\ reqs[p].pc = "done" /\ reqs[p].result = "200"
      /\ jobs[reqs[p].job].customer_id # reqs[p].caller )
    => \A e \in reqs[p].view :
         e.contractor_id # reqs[p].caller => e.amount = Hidden

\* C19: a createRating call gets past its checks only if the job it read is
\* completed, the caller is the job's customer or its contractor, the rated
\* user is the other of the two and not the caller, and the rating is in
\* 1..5; the only change of the ratings is the insert of such a call, which
\* adds one row with that job, from_user = the caller, to_user = the rated
\* user and that rating; a call answered with an error adds no rating.
C19_RatingOnlyByPartyOfCompletedJob ==
  [][/\ \A p \in Reqs :
          (reqs[p].pc # "cr_check" /\ reqs'[p].pc = "cr_check")
          => LET r == reqs'[p]
                 job == jobs[r.job] IN
             /\ job.exists /\ job.status = "completed"
             /\ r.caller \in {job.customer_id, job.contractor_id}
             /\ r.toUserId \in {job.customer_id, job.contractor_id}
             /\ r.toUserId # r.caller
             /\ r.rating \in 1..5
     /\ ratings' # ratings
        => \E p \in Reqs :
             /\ reqs[p].pc = "cr_insert"
             /\ reqs'[p].pc = "done" /\ IsSuccess(reqs'[p].result)
             /\ ratings' = Append(ratings,
                              [job_id |-> reqs[p].job,
                               from_user_id |-> reqs[p].caller,
                               to_user_id |-> reqs[p].toUserId,
                               rating |-> reqs[p].rating])
     /\ \A p \in Reqs :
          ( /\ reqs[p].op = "createRating" \/ reqs'[p].op = "createRating"
            /\ reqs'[p] # reqs[p]
            /\ reqs'[p].pc = "done" /\ ~IsSuccess(reqs'[p].result) )
          => ratings' = ratings]_vars

\* C19 witness: the contractor of a completed job has rated the job's
\* customer, and the customer the contractor.
C19_Witness ==
  \E i, k \in 1..Len(ratings) :
    LET job == jobs[ratings[i].job_id] IN
    /\ job.exists /\ job.status = "completed"
    /\ ratings[i].from_user_id = job.contractor_id
    /\ ratings[i].to_user_id = job.customer_id
    /\ ratings[k].job_id = ratings[i].job_id
    /\ ratings[k].from_user_id = job.customer_id
    /\ ratings[k].to_user_id = job.contractor_id

\* C20: there is at most one rating for each (job, from_user, to_user)
\* triple.
C20_OneRatingPerTriple ==
  \A i, k \in 1..Len(ratings) :
    ( /\ ratings[i].job_id = ratings[k].job_id
      /\ ratings[i].from_user_id = ratings[k].from_user_id
      /\ ratings[i].to_user_id = ratings[k].to_user_id )
    => i = k

\* C21: every successful createJob is made by a customer and creates exactly
\* one job, open, without contractor and owned by the caller; a createJob
\* with a missing required field or by a non-customer creates no job.
C21_CreateJobByCustomerCreatesOneOpenJob ==
  [][\A p \in Serial :
       (calls' # calls /\ CanStart(p) /\ reqs'[p].op = "createJob")
       => \A u \in DetailCallers, body \in Bodies, ok \in BOOLEAN :
            CreateJob(p, u, body, ok)
            => IF IsSuccess(reqs'[p].result)
               THEN /\ Role(u) = "customer"
                    /\ Truthy(body.title) /\ Truthy(body.description)
                    /\ Truthy(body.category) /\ Truthy(body.budget)
                    /\ \E j \in JobIds :
                         /\ ~jobs[j].exists /\ jobs'[j].exists
                         /\ jobs'[j].status = "open"
                         /\ jobs'[j].contractor_id = Null
                         /\ jobs'[j].customer_id = u
                         /\ \A i \in JobIds \ {j} : jobs'[i] = jobs[i]
               ELSE jobs' = jobs]_vars

\* a createJob call has answered 201 and its job is in the table
C21_Witness ==
  \E p \in Serial, j \in JobIds :
    /\ reqs[p].op = "createJob" /\ reqs[p].pc = "done"
    /\ reqs[p].result = "201"
    /\ jobs[j].exists /\ jobs[j].status = "open"

\* C22: in every reachable state there is at most one conversation for each
\* unordered pair of users, whichever side called getOrCreateConversation,
\* one call after the other or two at a time.
C22_OneConversationPerPair ==
  \A a \in Users, b \in Users :
    a # b => Cardinality(ConversationsOf(a, b)) <= 1

\* C23: an updateJob call by the owner with an empty patch passes the checks
\* on a job in any status, and its update changes no field of the job (only
\* updated_at, which the rows of the model do not carry) and answers 200
\* unless the store refuses the update or the job is gone; the jobs after two
\* such calls are therefore the jobs after one.
C23_EmptyPatchChangesNothing ==
  [][\A p \in Reqs :
       /\ ( /\ reqs[p].pc = "uj_write" /\ reqs'[p].pc = "done"
            /\ reqs[p].st = "none" /\ reqs[p].patch = NoFields )
          => /\ jobs' = jobs
             /\ (UpdateJobWrite(p, TRUE) /\ jobs[reqs[p].job].exists)
                => reqs'[p].result = "200"
       /\ ( calls' # calls /\ CanStart(p) /\ reqs'[p].op = "updateJob" )
          => \/ reqs'[p].pc = "uj_write"
             \/ \A u \in Callers, j \in JobIds :
                  (jobs[j].exists /\ jobs[j].customer_id = u)
                  => ~UpdateJobRead(p, u, j, "none", NoFields)]_vars

\* an updateJob call with an empty patch has passed the checks on a
\* completed job, after another updateJob call was answered 200
C23_Witness ==
  \E p \in Reqs, q \in Reqs :
    /\ reqs[p].pc = "uj_write" /\ reqs[p].st = "none"
    /\ reqs[p].patch = NoFields
    /\ jobs[reqs[p].job].status = "completed"
    /\ reqs[q].op = "updateJob" /\ reqs[q].result = "200"

\* the step in which the customer of a job that request p has just created
\* reads it with getJobById
ReadsBack(p) ==
  /\ reqs[p].op = "createJob" /\ reqs[p].result = "201"
  /\ reqs'[p].op = "getJobById" /\ reqs'[p].result = "200"
  /\ reqs'[p].job = reqs[p].job /\ reqs'[p].caller = reqs[p].caller

\* C24 as stated: a getJobById of a job by its customer, right after the
\* createJob that created it, returns exactly the submitted title,
\* description, category, location, budget (as a number) and images.
C24_ReadsBackSubmittedValues ==
  [][\A p \in Serial :
       ReadsBack(p)
       => LET sent == reqs[p].patch
              got == reqs'[p].seen IN
          /\ got.title = sent.title
          /\ got.description = sent.description
          /\ got.category = sent.category
          /\ got.budget = parseFloat(sent.budget)
          /\ got.location = (IF Truthy(sent.location) THEN sent.location
                                                     ELSE Null)
          /\ got.images = (IF Truthy(sent.images) THEN sent.images
                                                 ELSE Null)]_vars

\* C24 amended: it returns the submitted title, description and category
\* with the white space around them removed, the submitted budget as a
\* number, and the submitted location and images (null when empty).
C24_ReadsBackSanitizedValues ==
  [][\A p \in Serial :
       ReadsBack(p)
       => LET sent == reqs[p].patch
              got == reqs'[p].seen IN
          /\ got.title = trim(sent.title)
          /\ got.description = trim(sent.description)
          /\ got.category = trim(sent.category)
          /\ got.budget = parseFloat(sent.budget)
          /\ got.location = (IF Truthy(sent.location) THEN sent.location
                                                     ELSE Null)
          /\ got.images = (IF Truthy(sent.images) THEN sent.images
                                                 ELSE Null)]_vars

\* the customer has read back the job posted with spaces around its title
\* and an empty location (the only body that gives a job without location
\* and without images)
C24_Witness ==
  \E p \in Serial :
    /\ reqs[p].op = "getJobById" /\ reqs[p].result = "200"
    /\ reqs[p].caller = jobs[reqs[p].job].customer_id
    /\ reqs[p].seen.title = "T1" /\ reqs[p].seen.location = Null
    /\ reqs[p].seen.images = Null /\ reqs[p].seen.budget = 50

\* the accepted bids of a job
AcceptedBidsOf(j) == {b \in BidsOfJob(j) : bids[b].status = "accepted"}

\* C25: in every state in which no acceptBid call is in progress, a job has
\* status in_progress or completed if and only if exactly one of its bids is
\* accepted, and then that bid's contractor is the job's contractor_id.
C25_AssignedIffOneAcceptedBid ==
  (\A p \in Reqs : reqs[p].op = "acceptBid" => reqs[p].pc = "done")
  => \A j \in JobIds :
       jobs[j].exists
       => /\ jobs[j].status \in {"in_progress", "completed"}
             <=> Cardinality(AcceptedBidsOf(j)) = 1
          /\ jobs[j].status \in {"in_progress", "completed"}
             => \A b \in AcceptedBidsOf(j) :
                  bids[b].contractor_id = jobs[j].contractor_id

\* C26: the compensating rollback of an acceptBid call whose step 2 failed
\* only undoes that call's own job update: the job that it resets to open
\* is neither completed nor cancelled (an updateJob call has moved it on) nor
\* in_progress with another contractor than the call's own (another
\* acceptBid call has).
C26_RollbackUndoesOnlyOwnUpdate ==
  [][\A p \in Reqs :
       ( /\ reqs[p].pc = "ab_rollback" /\ reqs'[p].pc = "done"
         /\ jobs' # jobs )
       => /\ jobs[reqs[p].job].status \notin {"completed", "cancelled"}
          /\ jobs[reqs[p].job].status = "in_progress"
             => jobs[reqs[p].job].contractor_id = reqs[p].snap]_vars

\* C27: every bid starts in status pending and its status changes only
\* pending->accepted or pending->rejected; a bid that is accepted or
\* rejected never changes status again.
C27_BidStatusOnlyLeavesPending ==
  [][\A b \in BidIds :
       /\ (~bids[b].exists /\ bids'[b].exists) => bids'[b].status = "pending"
       /\ ( /\ bids[b].exists /\ bids'[b].exists
            /\ bids'[b].status # bids[b].status )
          => /\ bids[b].status = "pending"
             /\ bids'[b].status \in {"accepted", "rejected"}]_vars

\* C28: within one acceptBid call the reads and checks precede the first
\* write, the job update is issued before the update that accepts the bid,
\* which is issued before the update that rejects the sibling bids; if the
\* job update fails no bid is written (the call ends), and if the update
\* that accepts the bid fails the sibling rejection is never issued (the
\* call rolls back and ends).
C28_AcceptStepsInOrder ==
  [][\A p \in Reqs :
       /\ \* the two reads write nothing
          ( /\ reqs'[p] # reqs[p]
            /\ \/ reqs[p].pc = "ab_read_bid"
               \/ Free(p) /\ reqs'[p].op = "acceptBid" /\ calls' # calls )
          => /\ jobs' = jobs /\ bids' = bids
             /\ reqs'[p].pc \in {"ab_read_bid", "ab_update_job", "done"}
             /\ reqs'[p].pc = "ab_update_job" => reqs[p].pc = "ab_read_bid"
             /\ ~reqs'[p].wrote
       /\ \* step 1 writes no bid; step 2 follows only if it succeeded
          (reqs[p].pc = "ab_update_job" /\ reqs'[p] # reqs[p])
          => /\ bids' = bids
             /\ reqs'[p].pc \in {"ab_update_bid", "done"}
             /\ AcceptUpdateJob(p, FALSE)
                => /\ reqs'[p].pc = "done" /\ jobs' = jobs
                   /\ ~IsSuccess(reqs'[p].result)
       /\ \* step 2 writes the named bid only; step 3 follows only if it
          \* succeeded, the rollback only if it failed
          (reqs[p].pc = "ab_update_bid" /\ reqs'[p] # reqs[p])
          => /\ jobs' = jobs /\ reqs[p].wrote
             /\ \A b \in BidIds \ {reqs[p].bid} : bids'[b] = bids[b]
             /\ reqs'[p].pc \in {"ab_reject_others", "ab_rollback"}
             /\ AcceptUpdateBid(p, FALSE)
                => reqs'[p].pc = "ab_rollback" /\ bids' = bids
             /\ AcceptUpdateBid(p, TRUE) => reqs'[p].pc = "ab_reject_others"
       /\ \* the rollback writes no bid and ends the call with an error
          (reqs[p].pc = "ab_rollback" /\ reqs'[p] # reqs[p])
          => /\ bids' = bids /\ reqs'[p].pc = "done"
             /\ ~IsSuccess(reqs'[p].result)
       /\ \* step 3 writes the sibling bids only and ends the call
          (reqs[p].pc = "ab_reject_others" /\ reqs'[p] # reqs[p])
          => /\ jobs' = jobs /\ reqs'[p].pc = "done"
             /\ reqs[p].bid \in BidIds
                => bids'[reqs[p].bid] = bids[reqs[p].bid]]_vars

\* an acceptBid call has gone through its three writes: it answered 200,
\* its bid is accepted and a sibling bid is rejected
C28_Witness ==
  \E p \in Reqs, b \in BidIds :
    /\ reqs[p].op = "acceptBid" /\ reqs[p].pc = "done"
    /\ reqs[p].result = "200" /\ reqs[p].wrote /\ ~reqs[p].s3failed
    /\ bids[reqs[p].bid].status = "accepted"
    /\ b # reqs[p].bid /\ bids[b].status = "rejected"
    /\ jobs[reqs[p].job].status = "in_progress"

\* C29: an acceptBid call by the owning customer that names a job whose
\* status is not open, or a bid that does not exist or belongs to a different
\* job, returns an error and changes no job and no bid.
C29_BadAcceptChangesNothing ==
  [][\A p \in Reqs :
       /\ ( calls' # calls /\ CanStart(p) /\ reqs'[p].op = "acceptBid" )
          => \/ /\ reqs'[p].pc = "done" /\ ~IsSuccess(reqs'[p].result)
                /\ jobs' = jobs /\ bids' = bids
             \/ \A u \in TwoJobsCallers, j \in JobIds, b \in ReqBidIds :
                  ( /\ jobs[j].exists /\ jobs[j].customer_id = u
                    /\ jobs[j].status # "open" )
                  => ~AcceptReadJob(p, u, j, b)
       /\ ( /\ reqs[p].pc = "ab_read_bid" /\ reqs'[p] # reqs[p]
            /\ \/ ~BidRow(reqs[p].bid).exists
               \/ BidRow(reqs[p].bid).job_id # reqs[p].job )
          => /\ reqs'[p].pc = "done" /\ ~IsSuccess(reqs'[p].result)
             /\ jobs' = jobs /\ bids' = bids]_vars

\* the owner's acceptBid on an open job, naming a bid of the owner's other
\* job, has been answered with an error
C29_Witness ==
  \E p \in Reqs :
    /\ reqs[p].op = "acceptBid" /\ reqs[p].pc = "done"
    /\ reqs[p].result = "404 bid not found"
    /\ reqs[p].caller = jobs[reqs[p].job].customer_id
    /\ jobs[reqs[p].job].status = "open"
    /\ reqs[p].bid \in BidIds /\ bids[reqs[p].bid].exists
    /\ bids[reqs[p].bid].job_id # reqs[p].job

\* C30: in every reachable state every job's budget is greater than 0.
C30_BudgetPositive ==
  \A j \in JobIds : jobs[j].exists => jobs[j].budget > 0

\* C31: in every reachable state every bid's amount is greater than 0 and
\* its estimated days, when set, is a positive integer.
C31_BidAmountAndDaysPositive ==
  \A b \in BidIds :
    bids[b].exists
    => /\ bids[b].amount > 0
       /\ bids[b].estimated_days # NoDays => bids[b].estimated_days[1] > 0

\* C32: in every reachable state, the contractor_id of a job, when not null,
\* differs from the job's customer_id.
C32_ContractorIsNotCustomer ==
  \A j \in JobIds :
    (jobs[j].exists /\ jobs[j].contractor_id # Null)
    => jobs[j].contractor_id # jobs[j].customer_id

\* a job posted by a user registered as contractor has been assigned to a
\* user registered as customer: both users changed role
C32_Witness ==
  \E j \in JobIds :
    /\ jobs[j].exists /\ jobs[j].status = "in_progress"
    /\ jobs[j].contractor_id # Null
    /\ RegisteredRole(jobs[j].contractor_id) = "customer"
    /\ RegisteredRole(jobs[j].customer_id) = "contractor"

\* C33: every conversation created by getOrCreateConversation has the
\* authenticated caller as one of its two participants, and the other
\* participant is a different existing user.
C33_CallerIsParticipant ==
  [][\A p \in Reqs :
       ( /\ reqs[p].pc = "gc_insert" /\ reqs'[p].pc = "done"
         /\ conversations' # conversations )
       => \A c \in conversations' \ conversations :
            /\ reqs[p].caller \in {c[1], c[2]}
            /\ c[1] # c[2] /\ c[1] \in Users /\ c[2] \in Users]_vars

\* C34: for every paginated list operation and every page p >= 1 and limit
\* n >= 1 supplied in the query, the row range requested from the store is
\* exactly [(p-1)*n, p*n-1].
C34_RangeIsThePage ==
  \A p \in Reqs :
    ( /\ reqs[p].op \in {"getJobs", "getMyBids", "getMessages"}
      /\ reqs[p].result = "200"
      /\ reqs[p].page # Absent /\ reqs[p].limit # Absent )
    => reqs[p].range =
         << (Number(reqs[p].page) - 1) * Number(reqs[p].limit),
            Number(reqs[p].page) * Number(reqs[p].limit) - 1 >>

\* C35: no operation changes a job's customer_id, or a bid's job_id or
\* contractor_id, after the record is created.
C35_ReferencesNeverChange ==
  [][/\ \A j \in JobIds :
          (jobs[j].exists /\ jobs'[j].exists)
          => jobs'[j].customer_id = jobs[j].customer_id
     /\ \A b \in BidIds :
          (bids[b].exists /\ bids'[b].exists)
          => /\ bids'[b].job_id = bids[b].job_id
             /\ bids'[b].contractor_id = bids[b].contractor_id]_vars

\* updateBid, acceptBid and updateJob have each written: a bid with the
\* amount of an update is accepted and its job is completed
C35_Witness ==
  \E b \in BidIds :
    /\ bids[b].exists /\ bids[b].amount = 20 /\ bids[b].status = "accepted"
    /\ jobs[bids[b].job_id].status = "completed"
    /\ jobs[bids[b].job_id].contractor_id = bids[b].contractor_id

====
